---------------------------- MODULE Spec2Model ----------------------------
(***************************************************************************)
(* ReliableUDP: a stop-and-wait-per-window ARQ file transfer over UDP.     *)
(* sender.c reads a file in chunks of WINDOW_SIZE * DATA_SIZE bytes and    *)
(* sends every chunk as one window of up to WINDOW_SIZE data packets,      *)
(* retransmitting the unacknowledged ones after every ack timeout;         *)
(* receiver.c assembles one window at a time, acknowledges every datagram  *)
(* and appends each assembled window to its output file.                   *)
(*                                                                         *)
(* File bytes are tagged by their position: a payload, a slot of the       *)
(* receiver's window buffer and a run of the output are records            *)
(* [src, len] standing for the file bytes src .. src+len-1, so that two    *)
(* byte strings are equal for every file content exactly when their tags   *)
(* are equal.  Bytes the program never initialised carry the tag Garbage.  *)
(***************************************************************************)
EXTENDS Integers, Sequences, FiniteSets, TLC

\* ------------------------------------------------------------ constants
HEADER_SIZE == 2
DATA_SIZE == 500
PACKET_SIZE == HEADER_SIZE + DATA_SIZE
WINDOW_SIZE == 10
MAX_TIMEOUTS == 100
MAX_START_SEQ == 100

\* the chunk size of sendFile and the window buffer size of receiveFile
bufSize == DATA_SIZE * WINDOW_SIZE

\* -------------------------------------------------------------- bounds
\* files of Spec have at most MaxWindows windows
MaxWindows == 1
\* files of SpecNoLoss have at most MaxLongWindows full windows and a tail
MaxLongWindows == 12
\* transport faults (a loss, a duplication, a delay) of one run of Spec
MaxFaults == 1
\* transport faults of one run of SpecWrap
WrapFaults == 1

Min(a, b) == IF a < b THEN a ELSE b

Garbage == -1

Slots == 0 .. (WINDOW_SIZE - 1)

\* the lengths of the last, partial chunk that the model tries
Tails == {1, 499, 500, 501, 1000}

FileSizes(maxW) ==
    {w * bufSize + r : w \in 0 .. (maxW - 1), r \in Tails \cup {0}}
        \cup {maxW * bufSize}

\* files whose last window starts again at sequence base 0
WrapFileSizes ==
    {(MAX_START_SEQ \div WINDOW_SIZE + 1) * bufSize + r : r \in {1, 1000}}

VARIABLES
    \* the sender (sender.c)
    fileLen,        \* length of the file being sent
    filePos,        \* ftell(file): bytes read so far
    sFeof,          \* feof(file)
    bytesRead,      \* sendFile: size of the chunk of the current window
    sSeq,           \* sendFile: seq
    acks,           \* sendPackets: acks[WINDOW_SIZE]
    totalAcks,      \* sendPackets: totalAcks
    phaseAcks,      \* recvAcks: totalAcks of the call in progress
    totalTimeouts,  \* recvAcks: static totalTimeouts
    sPc,            \* "open" | "read" | "sweep" | "recv" | "done" | "dead"
    sRes,           \* sock and file of sendFile, their releases, the exit
    \* the receiver (receiver.c)
    rSeq,           \* receiveFile: seq
    eof,            \* receiveFile: eof
    totalPacketsExpected,
    packetsReceived,
    totalPacketsReceived,
    bytesReceived,
    buf,            \* receiveFile: buf, by slot
    out,            \* the bytes written to the output file, as runs
    rPc,            \* "open" | "recv" | "done" | "dead"
    rRes,           \* sock and file of receiveFile, their releases, the exit
    \* the transport
    dataQ,          \* datagrams on their way to the receiver, in order
    ackQ,           \* datagrams on their way to the sender, in order
    heldData,       \* copies of data packets the transport still holds
    heldAck,        \* copies of acks the transport still holds
    faultsLeft,     \* transport faults the run may still see
    \* history
    sWin,           \* number of windows the sender has completed
    rWin,           \* number of windows the receiver has completed
    written,        \* the buffer and packet count of the last window written
    phaseGot,       \* datagrams read by the recvAcks call in progress
    zeroRounds      \* consecutive recvAcks calls that read no datagram

sndVars == <<fileLen, filePos, sFeof, bytesRead, sSeq, acks, totalAcks,
             phaseAcks, totalTimeouts, sPc, sRes, sWin, phaseGot,
             zeroRounds>>
rcvVars == <<rSeq, eof, totalPacketsExpected, packetsReceived,
             totalPacketsReceived, bytesReceived, buf, out, rPc, rRes, rWin,
             written>>
netVars == <<dataQ, ackQ, heldData, heldAck, faultsLeft>>
vars == <<sndVars, rcvVars, netVars>>

\* ------------------------------------------------------ shared helpers
\* the range test of recvAcks and recvPackets
inWindow(seqNo, seq) ==
    LET seqEnd == seq + WINDOW_SIZE - 1
    IN  seqNo >= seq /\ seqNo <= seqEnd

\* seqNo % WINDOW_SIZE
packetNumberOf(seqNo) == seqNo % WINDOW_SIZE

\* advanceSeq starting again at 0 one window early
advanceSeqEarly(seq) ==
    IF seq = MAX_START_SEQ - WINDOW_SIZE THEN 0 ELSE seq + WINDOW_SIZE

\* the seq update at the end of both transfer loops
advanceSeq(seq) == IF seq = MAX_START_SEQ THEN 0 ELSE seq + WINDOW_SIZE


\* a value stored in a char (packet[0], ackPacket[0], buf[0]) and read back
toChar(v) ==
    LET m == v % 256
    IN  IF m >= 128 THEN m - 256 ELSE m

\* the value of sock when socket() has failed, of file when fopen has
NoSocket == -1
NULL == 0

\* the descriptor socket() returns, the stream fopen returns
SockFd == 3
FileStream == 1

\* a process that holds the handles sock and file and is running; closed
\* and fclosed count the calls of close and of fclose
running(sock, file) ==
    [sock |-> sock, file |-> file, closed |-> 0, fclosed |-> 0,
     exited |-> FALSE, status |-> 0, success |-> FALSE]

\* the status the parent sees after exit(v)
exitStatus(v) == v % 256

freeResources(res) ==
    [res EXCEPT !.closed = IF res.sock # NoSocket THEN @ + 1 ELSE @,
                !.fclosed = IF res.file # NULL THEN @ + 1 ELSE @]

\* die without the call of freeResources
dieNoFree(res) ==
    [res EXCEPT !.exited = TRUE, !.status = exitStatus(-1)]

die(res) ==
    [freeResources(res) EXCEPT !.exited = TRUE, !.status = exitStatus(-1)]

\* the end of sendFile and of receiveFile, then the end of main
returnFromMain(res) ==
    [freeResources(res) EXCEPT !.success = TRUE, !.exited = TRUE,
                               !.status = 0]

\* -------------------------------------------------------------- sender
\* calculatePacketSize without the case of the short last packet
calculatePacketSizeFull(bufSz, isLastPacket) == PACKET_SIZE

calculatePacketSize(bufSz, isLastPacket) ==
    IF isLastPacket
    THEN LET remainder == bufSz % DATA_SIZE
         IN  IF remainder = 0 THEN PACKET_SIZE ELSE remainder + HEADER_SIZE
    ELSE PACKET_SIZE

\* sendPackets: numberOfPackets
numberOfPackets(bufSz) ==
    bufSz \div DATA_SIZE + (IF bufSz % DATA_SIZE # 0 THEN 1 ELSE 0)

initAcks == [i \in Slots |-> FALSE]

\* sendPackets: the value of bufIndex when the sweep reaches slot i
RECURSIVE bufIndexAt(_, _)
bufIndexAt(bufSz, i) ==
    IF i = 0
    THEN 0
    ELSE bufIndexAt(bufSz, i - 1)
            + calculatePacketSize(bufSz, i = numberOfPackets(bufSz))
            - HEADER_SIZE

\* sendPackets: the datagram built and sent for slot i of the current chunk.
\* sendto sends packetSize bytes: the header and packetSize - HEADER_SIZE
\* bytes of the chunk, from bufIndex on.
makePacket(i) ==
    LET isLastPacket == (i + 1 = numberOfPackets(bytesRead))
        packetSize == calculatePacketSize(bytesRead, isLastPacket)
    IN  [seq |-> toChar(sSeq + i),
         eof |-> isLastPacket /\ sFeof,
         src |-> (filePos - bytesRead) + bufIndexAt(bytesRead, i),
         len |-> packetSize - HEADER_SIZE]

\* sendPackets: memcpy(packet + HEADER_SIZE, buf + bufIndex, packetSize)
\* for slot i: the offset written in packet, the offset read in buf and the
\* number of bytes copied
sendPacketsMemcpy(i) ==
    LET isLastPacket == (i + 1 = numberOfPackets(bytesRead))
        packetSize == calculatePacketSize(bytesRead, isLastPacket)
    IN  [to |-> HEADER_SIZE,
         from |-> bufIndexAt(bytesRead, i),
         len |-> packetSize]

\* sendPackets: the datagrams of one sweep, slots i .. numberOfPackets-1
RECURSIVE sweepFrom(_)
sweepFrom(i) ==
    IF i >= numberOfPackets(bytesRead)
    THEN <<>>
    ELSE (IF acks[i] THEN <<>> ELSE <<makePacket(i)>>) \o sweepFrom(i + 1)

\* the end test of sendFile without the case of no byte read
noBytesLeftNever(r) == r < 0

\* sendFile: the test bytesRead == 0 that ends the transfer loop
noBytesLeft(r) == r = 0

\* sendFile: fread of the next chunk; on a chunk, the prologue of sendPackets
SendFileRead ==
    /\ sPc = "read"
    /\ LET r == Min(bufSize, fileLen - filePos)
       IN  /\ bytesRead' = r
           /\ filePos' = filePos + r
           /\ sFeof' = (sFeof \/ r < bufSize)
           /\ IF noBytesLeft(r)
              THEN /\ sPc' = "done"
                   /\ sRes' = returnFromMain(sRes)
                   /\ UNCHANGED <<acks, totalAcks>>
              ELSE /\ sPc' = "sweep"
                   /\ acks' = initAcks
                   /\ totalAcks' = 0
                   /\ UNCHANGED sRes
    /\ UNCHANGED <<fileLen, sSeq, phaseAcks, totalTimeouts, sWin, phaseGot,
                   zeroRounds>>
    /\ UNCHANGED <<rcvVars, netVars>>

\* sendPackets: one pass of the for loop, then the call of recvAcks
Sweep ==
    /\ sPc = "sweep"
    /\ dataQ' = dataQ \o sweepFrom(0)
    /\ phaseAcks' = 0
    /\ phaseGot' = FALSE
    /\ sPc' = "recv"
    /\ UNCHANGED <<fileLen, filePos, sFeof, bytesRead, sSeq, acks, totalAcks,
                   totalTimeouts, sRes, sWin, zeroRounds>>
    /\ UNCHANGED <<rcvVars, ackQ, heldData, heldAck, faultsLeft>>

\* recvAcks: the test that counts the ack a
countsAck(a) ==
    LET isPrevWindowAck == ~inWindow(a, sSeq)
        packetNumber == packetNumberOf(a)
    IN  ~isPrevWindowAck /\ ~acks[packetNumber]

\* recvAcks resetting totalTimeouts only on an ack it counts
recvAcksResetOnCounted(a) ==
    LET packetNumber == packetNumberOf(a)
    IN  /\ totalTimeouts' = IF countsAck(a) THEN 0 ELSE totalTimeouts
        /\ phaseGot' = TRUE
        /\ IF countsAck(a)
           THEN /\ acks' = [acks EXCEPT ![packetNumber] = TRUE]
                /\ phaseAcks' = phaseAcks + 1
           ELSE UNCHANGED <<acks, phaseAcks>>
        /\ UNCHANGED <<fileLen, filePos, sFeof, bytesRead, sSeq, totalAcks,
                       sPc, sRes, sWin, zeroRounds>>

\* recvAcks: what the loop body does with the ack a
recvAcks(a) ==
    LET packetNumber == packetNumberOf(a)
    IN  /\ totalTimeouts' = 0
        /\ phaseGot' = TRUE
        /\ IF countsAck(a)
           THEN /\ acks' = [acks EXCEPT ![packetNumber] = TRUE]
                /\ phaseAcks' = phaseAcks + 1
           ELSE UNCHANGED <<acks, phaseAcks>>
        /\ UNCHANGED <<fileLen, filePos, sFeof, bytesRead, sSeq, totalAcks,
                       sPc, sRes, sWin, zeroRounds>>

\* recvAcks: recvfrom returns the next ack in order
RecvAck ==
    /\ sPc = "recv"
    /\ ackQ # <<>>
    /\ recvAcks(Head(ackQ))
    /\ ackQ' = Tail(ackQ)
    /\ UNCHANGED <<rcvVars, dataQ, heldData, heldAck, faultsLeft>>

\* recvAcks: recvfrom returns an ack the transport had held back
RecvHeldAck ==
    /\ sPc = "recv"
    /\ \E a \in heldAck :
          /\ recvAcks(a)
          /\ heldAck' = heldAck \ {a}
    /\ UNCHANGED <<rcvVars, dataQ, ackQ, heldData, faultsLeft>>

\* sendPackets: the negated loop test
windowComplete(total, n) == total = n

\* recvAcks on a timeout that leaves the counter as it is
countTimeoutNot(t) == t

\* recvAcks: totalTimeouts++ on a timeout
countTimeout(t) == t + 1

\* recvAcks: recvfrom times out; then the loop test of sendPackets and, on
\* a complete window, the end of the loop body of sendFile.  The timeout of
\* 100 ms outlasts the delivery of what is on its way and the receiver's
\* answer to it: a datagram that takes longer is one the transport delays
\* (DelayData, DelayAck), and the timeout fires while it is held.
AckTimeout ==
    /\ sPc = "recv"
    /\ ackQ = <<>>
    /\ dataQ = <<>>
    /\ totalTimeouts' = countTimeout(totalTimeouts)
    /\ zeroRounds' = IF phaseGot THEN 0
                     ELSE Min(zeroRounds + 1, MAX_TIMEOUTS + 1)
    /\ IF totalTimeouts' > MAX_TIMEOUTS
       THEN /\ sPc' = "dead"
            /\ sRes' = die(sRes)
            /\ UNCHANGED <<totalAcks, sSeq, sWin>>
       ELSE /\ totalAcks' = totalAcks + phaseAcks
            /\ UNCHANGED sRes
            /\ IF ~windowComplete(totalAcks', numberOfPackets(bytesRead))
               THEN /\ sPc' = "sweep"
                    /\ UNCHANGED <<sSeq, sWin>>
               ELSE /\ sPc' = "read"
                    /\ sSeq' = advanceSeq(sSeq)
                    /\ sWin' = sWin + 1
    /\ phaseAcks' = 0
    /\ UNCHANGED <<fileLen, filePos, sFeof, bytesRead, acks, phaseGot>>
    /\ UNCHANGED <<rcvVars, netVars>>


\* ------------------------------------------------------------ receiver
initPacketsReceived == [i \in Slots |-> FALSE]

\* the window buffer of receiveFile before anything is copied into it
freshBuf == [i \in Slots |-> [src |-> Garbage, len |-> 0]]

\* the first n bytes of the window buffer b, from slot i on, as runs
RECURSIVE bufBytes(_, _, _)
bufBytes(b, i, n) ==
    IF n <= 0 \/ i >= WINDOW_SIZE
    THEN <<>>
    ELSE LET take == Min(DATA_SIZE, n)
             good == Min(b[i].len, take)
         IN  (IF good > 0
              THEN <<[src |-> b[i].src, len |-> good]>> ELSE <<>>)
             \o (IF take > good
                 THEN <<[src |-> Garbage, len |-> take - good]>> ELSE <<>>)
             \o bufBytes(b, i + 1, n - take)

\* the output o with the runs rs appended, adjoining runs joined
RECURSIVE writeRuns(_, _)
writeRuns(o, rs) ==
    IF rs = <<>>
    THEN o
    ELSE LET r == Head(rs)
             n == Len(o)
             joins == /\ n > 0
                      /\ \/ o[n].src = Garbage /\ r.src = Garbage
                         \/ /\ o[n].src # Garbage
                            /\ r.src = o[n].src + o[n].len
         IN  writeRuns(IF joins
                       THEN [o EXCEPT ![n].len = o[n].len + r.len]
                       ELSE Append(o, r),
                       Tail(rs))

\* receiveFile: fwrite(buf, sizeof(char), bufSize, file)
fwrite(o, b, n) == writeRuns(o, bufBytes(b, 0, n))

\* recvPackets: memcpy(bufOut + packetNumber * DATA_SIZE,
\* packet + HEADER_SIZE, received - HEADER_SIZE) for the datagram p: the
\* offset written in the window buffer, the offset read in packet and the
\* number of bytes copied
recvPacketsMemcpy(p) ==
    LET received == p.len + HEADER_SIZE
        packetNumber == packetNumberOf(p.seq)
    IN  [to |-> packetNumber * DATA_SIZE,
         from |-> HEADER_SIZE,
         len |-> received - HEADER_SIZE]

\* acceptsPacket without the test of the slot's received flag
acceptsInWindow(seqNo) == inWindow(seqNo, rSeq)

\* recvPackets: the test that stores the packet numbered seqNo
acceptsPacket(seqNo) ==
    LET isPrevWindowAck == ~inWindow(seqNo, rSeq)
        packetNumber == packetNumberOf(seqNo)
    IN  ~isPrevWindowAck /\ ~packetsReceived[packetNumber]

\* recvPackets: the loop body on the datagram p, then the loop test and, on
\* a complete window, the rest of the loop body of receiveFile
recvPackets(p) ==
    LET seqNo == p.seq
        received == p.len + HEADER_SIZE
        packetNumber == packetNumberOf(seqNo)
        accept == acceptsPacket(seqNo)
        bytes == IF accept THEN bytesReceived + (received - HEADER_SIZE)
                 ELSE bytesReceived
        count == IF accept THEN totalPacketsReceived + 1
                 ELSE totalPacketsReceived
        expected == IF accept /\ p.eof THEN packetNumber + 1
                    ELSE totalPacketsExpected
        eofOut == eof \/ (accept /\ p.eof)
        bufOut == IF accept
                  THEN [buf EXCEPT ![packetNumber] =
                           [src |-> p.src, len |-> received - HEADER_SIZE]]
                  ELSE buf
    IN  /\ ackQ' = Append(ackQ, toChar(seqNo))
        /\ eof' = eofOut
        /\ IF count # expected
           THEN /\ bytesReceived' = bytes
                /\ totalPacketsReceived' = count
                /\ totalPacketsExpected' = expected
                /\ packetsReceived' =
                      IF accept
                      THEN [packetsReceived EXCEPT ![packetNumber] = TRUE]
                      ELSE packetsReceived
                /\ buf' = bufOut
                /\ UNCHANGED <<out, rSeq, rPc, rRes, rWin, written>>
           ELSE /\ out' = fwrite(out, bufOut, bytes)
                /\ written' = [buf |-> bufOut, count |-> expected]
                /\ rSeq' = advanceSeq(rSeq)
                /\ rWin' = rWin + 1
                /\ rPc' = IF eofOut THEN "done" ELSE "recv"
                /\ rRes' = IF eofOut THEN returnFromMain(rRes) ELSE rRes
                /\ bytesReceived' = 0
                /\ totalPacketsReceived' = 0
                /\ totalPacketsExpected' = WINDOW_SIZE
                /\ packetsReceived' = initPacketsReceived
                /\ buf' = freshBuf

\* recvPackets: recvfrom returns the next datagram in order
RecvData ==
    /\ rPc = "recv"
    /\ dataQ # <<>>
    /\ recvPackets(Head(dataQ))
    /\ dataQ' = Tail(dataQ)
    /\ UNCHANGED <<sndVars, heldData, heldAck, faultsLeft>>

\* recvPackets: recvfrom returns a datagram the transport had held back
RecvHeldData ==
    /\ rPc = "recv"
    /\ \E p \in heldData :
          /\ recvPackets(p)
          /\ heldData' = heldData \ {p}
    /\ UNCHANGED <<sndVars, dataQ, heldAck, faultsLeft>>

\* ----------------------------------------------------------- transport
\* a datagram for the receiver's socket arrives after freeResources closed it
ClosedDrop ==
    /\ rPc \in {"done", "dead"}
    /\ dataQ # <<>>
    /\ dataQ' = Tail(dataQ)
    /\ UNCHANGED <<sndVars, rcvVars, ackQ, heldData, heldAck, faultsLeft>>

LoseData ==
    /\ faultsLeft > 0
    /\ dataQ # <<>>
    /\ dataQ' = Tail(dataQ)
    /\ faultsLeft' = faultsLeft - 1
    /\ UNCHANGED <<sndVars, rcvVars, ackQ, heldData, heldAck>>

LoseAck ==
    /\ faultsLeft > 0
    /\ ackQ # <<>>
    /\ ackQ' = Tail(ackQ)
    /\ faultsLeft' = faultsLeft - 1
    /\ UNCHANGED <<sndVars, rcvVars, dataQ, heldData, heldAck>>

\* the transport makes a second copy of a datagram, delivered at any time
DupData ==
    /\ faultsLeft > 0
    /\ dataQ # <<>>
    /\ Head(dataQ) \notin heldData
    /\ heldData' = heldData \cup {Head(dataQ)}
    /\ faultsLeft' = faultsLeft - 1
    /\ UNCHANGED <<sndVars, rcvVars, dataQ, ackQ, heldAck>>

DupAck ==
    /\ faultsLeft > 0
    /\ ackQ # <<>>
    /\ Head(ackQ) \notin heldAck
    /\ heldAck' = heldAck \cup {Head(ackQ)}
    /\ faultsLeft' = faultsLeft - 1
    /\ UNCHANGED <<sndVars, rcvVars, dataQ, ackQ, heldData>>

\* the transport holds a datagram back: it is overtaken, and arrives late
DelayData ==
    /\ faultsLeft > 0
    /\ dataQ # <<>>
    /\ Head(dataQ) \notin heldData
    /\ heldData' = heldData \cup {Head(dataQ)}
    /\ dataQ' = Tail(dataQ)
    /\ faultsLeft' = faultsLeft - 1
    /\ UNCHANGED <<sndVars, rcvVars, ackQ, heldAck>>

DelayAck ==
    /\ faultsLeft > 0
    /\ ackQ # <<>>
    /\ Head(ackQ) \notin heldAck
    /\ heldAck' = heldAck \cup {Head(ackQ)}
    /\ ackQ' = Tail(ackQ)
    /\ faultsLeft' = faultsLeft - 1
    /\ UNCHANGED <<sndVars, rcvVars, dataQ, heldData>>

\* ------------------------------------------------- start and I/O errors
\* how the start of a program can go: socket() fails, the set-up of the
\* socket (inet_aton, setsockopt, bind) fails, fopen fails, or all succeed
StartOutcomes == {"socket", "setup", "fopen", "ok"}

\* openSocket, then fopen: the handles held and, on a failure, the call of die
start(res, outcome) ==
    IF outcome = "socket"
    THEN die(res)
    ELSE IF outcome \in {"setup", "fopen"}
         THEN die([res EXCEPT !.sock = SockFd])
         ELSE [res EXCEPT !.sock = SockFd, !.file = FileStream]

\* sendFile: openSocket and fopen
SendFileStart ==
    /\ sPc = "open"
    /\ \E outcome \in StartOutcomes :
          /\ sRes' = start(sRes, outcome)
          /\ sPc' = IF outcome = "ok" THEN "read" ELSE "dead"
    /\ UNCHANGED <<fileLen, filePos, sFeof, bytesRead, sSeq, acks, totalAcks,
                   phaseAcks, totalTimeouts, sWin, phaseGot, zeroRounds>>
    /\ UNCHANGED <<rcvVars, netVars>>

\* receiveFile: openSocket and fopen
ReceiveFileStart ==
    /\ rPc = "open"
    /\ \E outcome \in StartOutcomes :
          /\ rRes' = start(rRes, outcome)
          /\ rPc' = IF outcome = "ok" THEN "recv" ELSE "dead"
    /\ UNCHANGED <<rSeq, eof, totalPacketsExpected, packetsReceived,
                   totalPacketsReceived, bytesReceived, buf, out, rWin,
                   written>>
    /\ UNCHANGED <<sndVars, netVars>>

\* sendPackets: sendto fails in a sweep, after k packets of it were sent
SendtoError ==
    /\ sPc = "sweep"
    /\ LET sent == sweepFrom(0)
       IN  \E k \in 0 .. (Len(sent) - 1) :
              dataQ' = dataQ \o SubSeq(sent, 1, k)
    /\ sRes' = die(sRes)
    /\ sPc' = "dead"
    /\ UNCHANGED <<fileLen, filePos, sFeof, bytesRead, sSeq, acks, totalAcks,
                   phaseAcks, totalTimeouts, sWin, phaseGot, zeroRounds>>
    /\ UNCHANGED <<rcvVars, ackQ, heldData, heldAck, faultsLeft>>

\* recvAcks: recvfrom fails with an error that is not the timeout
RecvAcksError ==
    /\ sPc = "recv"
    /\ sRes' = die(sRes)
    /\ sPc' = "dead"
    /\ UNCHANGED <<fileLen, filePos, sFeof, bytesRead, sSeq, acks, totalAcks,
                   phaseAcks, totalTimeouts, sWin, phaseGot, zeroRounds>>
    /\ UNCHANGED <<rcvVars, netVars>>

\* recvPackets: recvfrom fails
RecvPacketsError ==
    /\ rPc = "recv"
    /\ rRes' = die(rRes)
    /\ rPc' = "dead"
    /\ UNCHANGED <<rSeq, eof, totalPacketsExpected, packetsReceived,
                   totalPacketsReceived, bytesReceived, buf, out, rWin,
                   written>>
    /\ UNCHANGED <<sndVars, netVars>>

\* recvPackets: the sendto of the ack of the datagram just received fails;
\* the window in assembly is not written
AckSendError ==
    /\ rPc = "recv"
    /\ dataQ # <<>>
    /\ dataQ' = Tail(dataQ)
    /\ rRes' = die(rRes)
    /\ rPc' = "dead"
    /\ UNCHANGED <<rSeq, eof, totalPacketsExpected, packetsReceived,
                   totalPacketsReceived, bytesReceived, buf, out, rWin,
                   written>>
    /\ UNCHANGED <<sndVars, ackQ, heldData, heldAck, faultsLeft>>

\* ------------------------------------------------------ specifications
\* both programs at the point pc of their start, holding the handles sock
\* and file, on a file of one of the sizes; f faults may happen
InitAt(sizes, f, pc, sock, file) ==
    /\ fileLen \in sizes
    /\ filePos = 0
    /\ sFeof = FALSE
    /\ bytesRead = 0
    /\ sSeq = 0
    /\ acks = initAcks
    /\ totalAcks = 0
    /\ phaseAcks = 0
    /\ totalTimeouts = 0
    /\ sPc = (IF pc = "open" THEN "open" ELSE "read")
    /\ sRes = running(sock, file)
    /\ rSeq = 0
    /\ eof = FALSE
    /\ totalPacketsExpected = WINDOW_SIZE
    /\ packetsReceived = initPacketsReceived
    /\ totalPacketsReceived = 0
    /\ bytesReceived = 0
    /\ buf = freshBuf
    /\ out = <<>>
    /\ rPc = (IF pc = "open" THEN "open" ELSE "recv")
    /\ rRes = running(sock, file)
    /\ dataQ = <<>>
    /\ ackQ = <<>>
    /\ heldData = {}
    /\ heldAck = {}
    /\ faultsLeft = f
    /\ sWin = 0
    /\ rWin = 0
    /\ written = [buf |-> freshBuf, count |-> 0]
    /\ phaseGot = FALSE
    /\ zeroRounds = 0

\* both programs with their socket and their file open, about to transfer
InitWith(sizes, f) == InitAt(sizes, f, "run", SockFd, FileStream)

\* the steps of the two programs over a transport that keeps every datagram
NextReliable ==
    \/ SendFileRead
    \/ Sweep
    \/ RecvAck
    \/ AckTimeout
    \/ RecvData

\* what an unreliable transport adds
Faults ==
    \/ ClosedDrop
    \/ LoseData
    \/ LoseAck
    \/ DupData
    \/ DupAck
    \/ DelayData
    \/ DelayAck
    \/ RecvHeldData
    \/ RecvHeldAck

Init == InitWith(FileSizes(MaxWindows), MaxFaults)

Next == NextReliable \/ Faults

\* short files over a transport that loses, duplicates and delays
Spec == Init /\ [][Next]_vars

InitNoLoss == InitWith(FileSizes(MaxLongWindows), 0)

\* files of every shape over a transport without faults
SpecNoLoss == InitNoLoss /\ [][NextReliable]_vars

InitWrap == InitWith(WrapFileSizes, WrapFaults)

\* files long enough for the sequence base to wrap, with faults
SpecWrap == InitWrap /\ [][Next]_vars

\* RecvData as the transport sees it: the receiver's recvfrom returns the
\* datagram that has arrived and the receiver answers it.  It is enabled
\* exactly when RecvData is, and a step of Next is a step of it exactly
\* when it is a step of RecvData; it always changes the transport.
RecvDataTaken ==
    /\ rPc = "recv"
    /\ dataQ # <<>>
    /\ dataQ' = Tail(dataQ)
    /\ ackQ' = Append(ackQ, toChar(Head(dataQ).seq))
    /\ UNCHANGED <<sndVars, heldData, heldAck, faultsLeft>>

\* both programs keep running: a statement that can be executed is, a
\* recvfrom returns the datagram that has arrived or, at the sender, times
\* out after 100 ms, and a datagram for a closed socket is discarded.  The
\* transport owes nothing: no fault, and no delivery of a held copy, has to
\* happen.
Fairness ==
    /\ WF_vars(SendFileRead)
    /\ WF_vars(Sweep)
    /\ WF_vars(RecvAck)
    /\ WF_vars(AckTimeout)
    /\ WF_netVars(RecvDataTaken)
    /\ WF_vars(ClosedDrop)

\* no file, one packet, two packets with a short or a full last one, and
\* one full window, after which the receiver is told of no end
LiveSizes == {0, 1, DATA_SIZE + 1, 2 * DATA_SIZE, bufSize}

InitLive == InitWith(LiveSizes, MaxFaults)

\* short files over a transport that loses, duplicates and delays, with
\* both programs running on
SpecLive == InitLive /\ [][Next]_vars /\ Fairness

\* files of two windows, the second one short
TwoWindowSizes == {bufSize + 1, bufSize + DATA_SIZE + 1}

InitTwo == InitWith(TwoWindowSizes, MaxFaults)

\* files of two windows over a transport that loses, duplicates and delays
SpecTwo == InitTwo /\ [][Next]_vars

\* what failing system calls add
Errors ==
    \/ SendFileStart
    \/ ReceiveFileStart
    \/ SendtoError
    \/ RecvAcksError
    \/ RecvPacketsError
    \/ AckSendError
    \/ ClosedDrop

InitErrors == InitAt(FileSizes(MaxWindows), 0, "open", NoSocket, NULL)

NextErrors == NextReliable \/ Errors

\* short files from the start of both programs on, over a transport without
\* faults, with system calls that may fail
SpecErrors == InitErrors /\ [][NextErrors]_vars


\* --------------------------------------------------------------- claims
\* the whole file, as the runs of an output
WholeFile == IF fileLen = 0 THEN <<>> ELSE <<[src |-> 0, len |-> fileLen]>>

\* the output o holds the first bytes of the file and nothing else
IsPrefixOfFile(o) ==
    \/ o = <<>>
    \/ Len(o) = 1 /\ o[1].src = 0 /\ o[1].len <= fileLen

C3_SenderNeverAhead == sWin <= rWin

\* C4: with no loss, once the sender has ended and nothing is on its way
\* the receiver has ended too: it is not left blocked in recvfrom
C4_ReceiverNotLeftBlocked ==
    (sPc = "done" /\ dataQ = <<>>) => rPc = "done"

\* C5: the endpoints never end with different outcomes: when the receiver
\* has ended with success the sender does not abort
C5_SameOutcome == rPc = "done" => sPc # "dead"

\* C6: after MAX_TIMEOUTS consecutive calls of recvAcks that read no ack,
\* the sender has aborted and starts no further sweep
C6_AbortAfterMaxTimeouts == zeroRounds >= MAX_TIMEOUTS => sPc = "dead"

\* C7: a sweep sends exactly the slots of the window whose acked flag is
\* unset, and at the end of a call of recvAcks sendPackets returns exactly
\* when every slot of the window is acknowledged
C7_SweepsUnackedReturnsWhenAllAcked ==
    [][LET n == numberOfPackets(bytesRead)
           unacked == {i \in 0 .. (n - 1) : ~acks[i]}
           sent == SubSeq(dataQ', Len(dataQ) + 1, Len(dataQ'))
       IN  /\ (sPc = "sweep" /\ sPc' = "recv") =>
                 /\ Len(sent) = Cardinality(unacked)
                 /\ {sent[j].seq : j \in 1 .. Len(sent)}
                       = {toChar(sSeq + i) : i \in unacked}
           /\ (sPc = "recv" /\ sPc' \in {"sweep", "read"}) =>
                 ((sPc' = "read") <=> (\A i \in 0 .. (n - 1) : acks[i]))
      ]_vars

ReceivedNow(p) ==
    /\ rPc = "recv"
    /\ \/ /\ dataQ # <<>>
          /\ p = Head(dataQ)
          /\ dataQ' = Tail(dataQ)
          /\ faultsLeft' = faultsLeft
       \/ /\ p \in heldData
          /\ heldData' = heldData \ {p}
          /\ dataQ' = dataQ

\* the datagram p is stale or repeats a slot of the window in assembly
StaleOrDuplicate(p) ==
    \/ p.seq < rSeq
    \/ p.seq > rSeq + WINDOW_SIZE - 1
    \/ packetsReceived[p.seq % WINDOW_SIZE]

C10_AckedCountWithinWindow ==
    sPc \in {"sweep", "recv"} =>
        /\ totalAcks + phaseAcks = Cardinality({i \in Slots : acks[i]})
        /\ totalAcks + phaseAcks <= numberOfPackets(bytesRead)

\* C11: in the last window, once the packet with the EOF flag has been
\* accepted in slot s the expected count is s + 1, and the receiver does not
\* stay in recvPackets when the slots 0 .. s have all been received: while
\* it is still receiving after the EOF packet, one of them is missing
C11_ReturnsOnceSlotsUpToEof ==
    (rPc = "recv" /\ eof) =>
        /\ \E s \in Slots :
              /\ packetsReceived[s]
              /\ buf[s].src + buf[s].len = fileLen
              /\ totalPacketsExpected = s + 1
        /\ \E i \in 0 .. (totalPacketsExpected - 1) : ~packetsReceived[i]

\* the sequence bases in use before seq starts again at 0
SeqBases == MAX_START_SEQ \div WINDOW_SIZE + 1

\* C12: the sender transmits the file as ceil(N / 5000) windows in order;
\* the packet of slot i of window w has the sequence number base + i and
\* carries the DATA_SIZE bytes from w * 5000 + i * 500 on, the last packet
\* of the file the 1 .. DATA_SIZE bytes that remain; the EOF flag is set on
\* the last packet of the file and on no other
C12_WindowsPacketsAndEofFlag ==
    /\ \A j \in 1 .. Len(dataQ) :
          LET p == dataQ[j]
              w == p.src \div bufSize
              i == (p.src % bufSize) \div DATA_SIZE
          IN  /\ p.src = w * bufSize + i * DATA_SIZE
              /\ w = sWin
              /\ p.seq = (w % SeqBases) * WINDOW_SIZE + i
              /\ p.len = Min(DATA_SIZE, fileLen - p.src)
              /\ p.len >= 1
              /\ p.eof <=> (p.src + p.len = fileLen)
    /\ sPc = "done" => sWin = (fileLen + bufSize - 1) \div bufSize

\* the sequence numbers of the window whose base is seq
WindowRange(seq) == seq .. (seq + WINDOW_SIZE - 1)

\* the base seq of an endpoint that has completed win windows is a base
\* in use, and follows the completed windows around the wrap
BaseFollowsWindows(seq, win) ==
    /\ seq \in {b * WINDOW_SIZE : b \in 0 .. (SeqBases - 1)}
    /\ seq = (win % SeqBases) * WINDOW_SIZE

\* an endpoint that completes a window goes from base seq to base next:
\* WINDOW_SIZE further, or from MAX_START_SEQ to 0; no sequence number of
\* the window just completed is in the next window, and in both windows
\* the slot is the sequence number less the base
BaseAdvances(seq, next) ==
    /\ next = IF seq = MAX_START_SEQ THEN 0 ELSE seq + WINDOW_SIZE
    /\ \A x \in WindowRange(seq) : ~inWindow(x, next)
    /\ \A x \in WindowRange(seq) : packetNumberOf(x) = x - seq
    /\ \A x \in WindowRange(next) : packetNumberOf(x) = x - next

\* C13: on both endpoints the sequence base is one of 0, 10, .., 100; it
\* advances by 10 at every completed window and wraps from 100 to 0; every
\* sequence number sent lies in 0 .. 109; the ranges of two consecutive
\* windows are disjoint and the slot is seqNo mod 10 = seqNo - base
C13_SeqBaseCycle ==
    /\ [](/\ BaseFollowsWindows(sSeq, sWin)
          /\ BaseFollowsWindows(rSeq, rWin)
          /\ \A j \in 1 .. Len(dataQ) :
                dataQ[j].seq \in 0 .. (MAX_START_SEQ + WINDOW_SIZE - 1)
          /\ \A j \in 1 .. Len(ackQ) :
                ackQ[j] \in 0 .. (MAX_START_SEQ + WINDOW_SIZE - 1))
    /\ [][/\ sWin' = sWin + 1 => BaseAdvances(sSeq, sSeq')
          /\ sWin' = sWin => sSeq' = sSeq
          /\ rWin' = rWin + 1 => BaseAdvances(rSeq, rSeq')
          /\ rWin' = rWin => rSeq' = rSeq
         ]_vars

\* C13 witness: both endpoints have completed the window of base
\* MAX_START_SEQ and are back at base 0
C13_Witness ==
    /\ sWin = SeqBases
    /\ rWin = SeqBases
    /\ sSeq = 0
    /\ rSeq = 0
    /\ sPc = "sweep"

\* the process whose handles are res has ended with both handles, when it
\* held them, released once
ReleasedOnce(res) ==
    /\ res.closed = (IF res.sock # NoSocket THEN 1 ELSE 0)
    /\ res.fclosed = (IF res.file # NULL THEN 1 ELSE 0)

\* the process at pc with the handles res ends as claimed: on an error with
\* a nonzero status and no success line, on success with status 0, in both
\* cases with its handles released once; before that it releases nothing
EndsAsClaimed(pc, res) ==
    /\ pc = "dead" =>
          /\ ReleasedOnce(res)
          /\ res.exited
          /\ res.status # 0
          /\ ~res.success
    /\ pc = "done" =>
          /\ ReleasedOnce(res)
          /\ res.exited
          /\ res.status = 0
          /\ res.success
    /\ pc \notin {"dead", "done"} =>
          /\ ~res.exited
          /\ res.closed = 0
          /\ res.fclosed = 0

\* C15: however an endpoint ends once its socket is open (success, file
\* open failure, I/O error of a send or a receive, retry budget used up),
\* its socket and its file, when open, are each released exactly once; an
\* error ends with a nonzero status and without the success line, success
\* with status 0
C15_ReleasedOnceAndStatus ==
    /\ EndsAsClaimed(sPc, sRes)
    /\ EndsAsClaimed(rPc, rRes)

\* C15 witness: the receiver has died of an I/O error with its socket and
\* file open, and the sender has then used up its retry budget
C15_Witness ==
    /\ rPc = "dead"
    /\ rRes.sock = SockFd
    /\ rRes.file = FileStream
    /\ rRes.closed = 1
    /\ rRes.fclosed = 1
    /\ sPc = "dead"
    /\ totalTimeouts = MAX_TIMEOUTS + 1
    /\ sRes.closed = 1
    /\ sRes.fclosed = 1
    /\ sRes.status = exitStatus(-1)

\* C14: on a file of 0 bytes the sender ends with success at its first
\* read, which returns no byte: it enters no window, sends no datagram and
\* waits for no ack
C14_EmptyFileSendsNothing ==
    fileLen = 0 =>
        /\ sPc \in {"read", "done"}
        /\ bytesRead = 0
        /\ sWin = 0
        /\ dataQ = <<>>
        /\ heldData = {}
        /\ ackQ = <<>>
        /\ totalTimeouts = 0
        /\ sPc = "done" => (sRes.success /\ sRes.status = 0)

\* C14 witness: the sender has ended on the file of 0 bytes while the
\* receiver, which got nothing, is still receiving
C14_Witness ==
    /\ fileLen = 0
    /\ sPc = "done"
    /\ sRes.success
    /\ dataQ = <<>>
    /\ rPc = "recv"

\* the file position of the first byte of slot i of the window numbered win
SlotStart(win, i) == win * bufSize + i * DATA_SIZE

\* C16: a packet the receiver has accepted into the window in assembly is
\* the packet of that slot of that very window, not one of the window with
\* the same base before the wrap; an ack the sender has counted is for a
\* slot it sends in the window in progress and was made for that window:
\* the receiver holds, or has written, the packet of that slot
C16_AcceptedForWindowInProgress ==
    /\ \A i \in Slots :
          packetsReceived[i] => buf[i].src = SlotStart(rWin, i)
    /\ sPc \in {"sweep", "recv"} =>
          \A i \in Slots :
             acks[i] =>
                /\ i < numberOfPackets(bytesRead)
                /\ \/ rWin > sWin
                   \/ /\ rWin = sWin
                      /\ packetsReceived[i]
                      /\ buf[i].src = SlotStart(sWin, i)

\* the sender reads an ack in this step
AckReadNow ==
    /\ sPc = "recv"
    /\ \/ /\ ackQ # <<>>
          /\ ackQ' = Tail(ackQ)
          /\ faultsLeft' = faultsLeft
          /\ heldAck' = heldAck
       \/ /\ heldAck' # heldAck
          /\ heldAck' \subseteq heldAck

\* a call of recvAcks ends in this step
PhaseEndsNow == sPc = "recv" /\ sPc' # "recv"

\* C17 as stated: the retry counter is kept from window to window, is set
\* to zero by every ack read, and is incremented only at the end of a call
\* of recvAcks that read no ack, so that it is 0 at the end of a call that
\* read one
C17_CountsOnlyAckLessPhases ==
    [][/\ AckReadNow => totalTimeouts' = 0
       /\ PhaseEndsNow =>
             totalTimeouts' = IF phaseGot THEN 0 ELSE totalTimeouts + 1
       /\ (~AckReadNow /\ ~PhaseEndsNow) => totalTimeouts' = totalTimeouts
      ]_vars

\* C17, amended: the retry counter is kept from window to window, is set
\* to zero by every ack read, counted or not, and is incremented by the
\* timeout that ends every call of recvAcks, also one that read acks: at
\* the end of a call that read an ack the counter is 1
C17_CountsEveryTimeout ==
    [][/\ AckReadNow => totalTimeouts' = 0
       /\ PhaseEndsNow =>
             /\ totalTimeouts' = totalTimeouts + 1
             /\ phaseGot => totalTimeouts' = 1
       /\ (~AckReadNow /\ ~PhaseEndsNow) => totalTimeouts' = totalTimeouts
      ]_vars

\* C17 witness: the sender waits for the first ack of its second window
\* with the count of 1 that the end of the first window's call left
C17_Witness ==
    /\ sWin = 1
    /\ sPc = "recv"
    /\ ~phaseGot
    /\ totalTimeouts = 1

\* C18: whatever the transport loses, duplicates or delays, every call of
\* sendPackets comes to its end, by the return on a complete window or by
\* the abort on the used-up retry budget, and the sender ends: it does not
\* sweep and wait forever
C18_SenderTerminates ==
    /\ (sPc \in {"sweep", "recv"}) ~> (sPc \in {"read", "dead"})
    /\ <>(sPc \in {"done", "dead"})

\* C18 witness: with the receiver gone and the ack of the last packet lost,
\* the sender has swept until the retry budget was used up
C18_Witness ==
    /\ sPc = "dead"
    /\ rPc = "done"
    /\ faultsLeft = 0
    /\ heldAck = {}
    /\ totalTimeouts = MAX_TIMEOUTS + 1

\* the base of the window before the one of base seq
prevSeq(seq) == IF seq = 0 THEN MAX_START_SEQ ELSE seq - WINDOW_SIZE

\* the ack a is read by the sender in this step
AckTakenNow(a) ==
    /\ sPc = "recv"
    /\ \/ /\ ackQ # <<>>
          /\ a = Head(ackQ)
          /\ ackQ' = Tail(ackQ)
          /\ faultsLeft' = faultsLeft
          /\ heldAck' = heldAck
       \/ /\ a \in heldAck
          /\ heldAck' = heldAck \ {a}

\* C19: a data packet the receiver finds out of its window is a packet of
\* the window it completed last, and an ack the sender finds out of its
\* window is an ack of the window it completed last; the receiver has
\* completed as many windows as the sender, or one more
C19_OutOfWindowIsPreviousWindow ==
    /\ [](rWin - sWin \in {0, 1})
    /\ [][/\ \A p \in heldData \cup
                      {dataQ[j] : j \in 1 .. Min(1, Len(dataQ))} :
                (ReceivedNow(p) /\ ~inWindow(p.seq, rSeq)) =>
                    /\ rWin > 0
                    /\ p.src \div bufSize = rWin - 1
          /\ \A a \in heldAck \cup {ackQ[j] : j \in 1 .. Min(1, Len(ackQ))} :
                (AckTakenNow(a) /\ ~inWindow(a, sSeq)) =>
                    /\ sWin > 0
                    /\ inWindow(a, prevSeq(sSeq))
         ]_vars

\* C20: every copy stays in bounds.  For every slot of the window being
\* sent the sender reads only bytes of the chunk read, from offset i * 500
\* on, and writes only inside packet, of PACKET_SIZE bytes; for every
\* datagram that can arrive the receiver copies a length that is not
\* negative into the DATA_SIZE bytes of the datagram's slot of the buffer
C20_CopiesInBounds ==
    /\ sPc \in {"sweep", "recv"} =>
          \A i \in 0 .. (numberOfPackets(bytesRead) - 1) :
             LET c == sendPacketsMemcpy(i)
             IN  /\ c.len >= 0
                 /\ c.from = i * DATA_SIZE
                 /\ c.from + c.len <= bytesRead
                 /\ c.to + c.len <= PACKET_SIZE
    /\ \A p \in heldData \cup {dataQ[j] : j \in 1 .. Len(dataQ)} :
          LET c == recvPacketsMemcpy(p)
              slot == packetNumberOf(p.seq)
          IN  /\ c.len >= 0
              /\ c.to = slot * DATA_SIZE
              /\ c.to + c.len <= (slot + 1) * DATA_SIZE
              /\ c.to + c.len <= bufSize
              /\ c.from + c.len <= PACKET_SIZE

=============================================================================
